---- MODULE Spec2Model ----
(***************************************************************************)
(* The Note page (src/src/pages/Note.js) inside the dashboard container    *)
(* (src/unnamed/part_000): the React state of both components, the timers  *)
(* and awaited writes they leave pending, and the Firestore collection     *)
(* users/<uid>/notes with its snapshot listeners.                          *)
(*                                                                         *)
(* JavaScript strings are sequences of one-character strings, so that      *)
(* trim, toLowerCase and includes are computed and not assumed.  Array     *)
(* indices are the 0-based indices of the code: notes[i] is At(notes, i).  *)
(***************************************************************************)
EXTENDS Integers, Sequences, FiniteSets

\* ------------------------------------------------------------------ bounds
\* document ids the store hands out (ids are never reused)
MaxIds == 2
\* readings of the wall clock, 1..MaxTime
MaxTime == 2
\* writes awaited at the same time
MaxInflight == 2
\* setTimeout callbacks pending at the same time
MaxTimers == 2

\* ------------------------------------------------------- JavaScript values
\* editIndex === null
Null == -2
\* Array.prototype.findIndex found nothing
NotFound == -1
\* useAuthState has resolved no user
NoUser == "none"
Uid == "u1"
\* the delay closeModal gives setTimeout, and the one openModal gives it
CloseDelay == 700
AnimDelay == 0

Trip == <<"A", "b">>
Blank == <<" ">>
Empty == <<>>
Body == <<"x">>

\* the values the modal's inputs can give the draft
TitleInputs == {Empty, Blank, Trip}
BodyInputs == {Empty, Blank, Body}
\* the values the search box can hold
QueryInputs == {Empty, <<"a">>, <<"A", "B">>, <<"B", "a">>}
Times == 1..MaxTime

\* ------------------------------------------------------- string functions
IsSpace(c) == c = " "

RECURSIVE TrimStart(_)
TrimStart(s) ==
  IF s # <<>> /\ IsSpace(Head(s)) THEN TrimStart(Tail(s)) ELSE s

RECURSIVE TrimEnd(_)
TrimEnd(s) ==
  IF s # <<>> /\ IsSpace(s[Len(s)]) THEN TrimEnd(SubSeq(s, 1, Len(s) - 1)) ELSE s

\* String.prototype.trim
Trim(s) == TrimEnd(TrimStart(s))

LowerChar(c) ==
  CASE c = "A" -> "a"
    [] c = "B" -> "b"
    [] OTHER -> c

\* String.prototype.toLowerCase
ToLowerCase(s) == [i \in DOMAIN s |-> LowerChar(s[i])]

\* String.prototype.includes
Includes(s, q) ==
  \E k \in 0..(Len(s) - Len(q)) : SubSeq(s, k + 1, k + Len(q)) = q

\* a string in a condition: "" is falsy
Truthy(s) == s # <<>>

\* ------------------------------------------------------- array functions
At(arr, i) == arr[i + 1]
InRange(arr, i) == i >= 0 /\ i < Len(arr)

\* the filter without toLowerCase()
RECURSIVE FilterCaseSensitive(_, _)
FilterCaseSensitive(arr, q) ==
  IF arr = <<>> THEN <<>>
  ELSE IF Includes(Head(arr).title, q)
       THEN <<Head(arr)>> \o FilterCaseSensitive(Tail(arr), q)
       ELSE FilterCaseSensitive(Tail(arr), q)

\* notes.filter((note) => note.title.toLowerCase().includes(searchQuery.toLowerCase()))
RECURSIVE Filter(_, _)
Filter(arr, q) ==
  IF arr = <<>> THEN <<>>
  ELSE IF Includes(ToLowerCase(Head(arr).title), ToLowerCase(q))
       THEN <<Head(arr)>> \o Filter(Tail(arr), q)
       ELSE Filter(Tail(arr), q)

\* notes.findIndex((n) => n.id === id)
FindIndex(arr, id) ==
  IF \E i \in DOMAIN arr : arr[i].id = id
  THEN (CHOOSE i \in DOMAIN arr : arr[i].id = id /\ \A j \in 1..(i - 1) : arr[j].id # id) - 1
  ELSE NotFound

\* --------------------------------------------------------------- the state
VARIABLES
  nav,            \* MobileContainer: the active view, 1..4
  isOpen,         \* MobileContainer: the navigation menu is unfolded
  user,           \* useAuthState(auth): NoUser or a uid
  notes,          \* Note: the mirrored list
  newNote,        \* Note: the draft's body
  newTitle,       \* Note: the draft's title
  lastEdited,     \* Note: the draft's stamp (0 is the falsy initial "")
  tag,            \* Note: the draft's tag
  searchQuery,    \* Note: the text of the search box
  filteredNotes,  \* Note: the result of the last handleSearch
  isModalOpen,
  isAnimating,
  editIndex,      \* Note: Null, or the index openModal was given
  loading,
  errorModal,
  sourceId,       \* history: the id of notes[index] when openModal(index) ran, 0 for Create
  cleanup,        \* the cleanup function the effect returned, "none" or the uid it unsubscribes
  listeners,      \* Firestore: the snapshot listeners of users/<uid>/notes
  store,          \* Firestore: the documents of users/Uid/notes
  nextId,         \* Firestore: the next document id addDoc assigns
  now,            \* the reading of Date.now()
  timers,         \* setTimeout callbacks not yet run, in the order they were set
  inflight        \* awaited addDoc/updateDoc/deleteDoc calls not yet settled

dash == <<nav, isOpen>>
draft == <<newNote, newTitle, lastEdited, tag, editIndex, sourceId>>
search == <<searchQuery, filteredNotes>>
modal == <<isModalOpen, isAnimating>>
remote == <<store, nextId>>
vars == <<nav, isOpen, user, notes, newNote, newTitle, lastEdited, tag, searchQuery,
          filteredNotes, isModalOpen, isAnimating, editIndex, loading, errorModal,
          sourceId, cleanup, listeners, store, nextId, now, timers, inflight>>

NotesView == 3
Views == 1..4
\* <Note /> is in the render tree
Mounted == nav = NotesView

ErrorModalClosed == [isOpen |-> FALSE, message |-> ""]
ErrorModalOpened == [isOpen |-> TRUE, message |-> "Please fill in all fields."]
\* setErrorModal(false): errorModal.isOpen and errorModal.message read undefined
ErrorModalFalse == [isOpen |-> FALSE, message |-> "undefined"]

\* a pending setTimeout callback; superseded is history: openModal ran after it was set
AnimTimer == [delay |-> AnimDelay, fn |-> "setIsAnimating(true)", superseded |-> FALSE]
CloseTimer == [delay |-> CloseDelay, fn |-> "setIsModalOpen(false)", superseded |-> FALSE]
Superseded(ts) == [i \in DOMAIN ts |-> [ts[i] EXCEPT !.superseded = TRUE]]

\* ------------------------------------------------------------ the store
\* orderBy("edit", "desc"): by stamp, equal stamps by document id, both descending
Before(a, b) == a.edit > b.edit \/ (a.edit = b.edit /\ a.id > b.id)

RECURSIVE Ordered(_)
Ordered(docs) ==
  IF docs = {} THEN <<>>
  ELSE LET first == CHOOSE d \in docs : \A e \in docs \ {d} : Before(d, e)
       IN <<first>> \o Ordered(docs \ {first})

\* snapshot.docs of the query over the collection
SnapshotDocs == Ordered(store)

\* snapshot.docs.map((doc) => ({ id: doc.id, ...doc.data() }))
UpdatedNotes(docs) ==
  [i \in DOMAIN docs |->
     [id |-> docs[i].id, title |-> docs[i].title, text |-> docs[i].text,
      tag |-> docs[i].tag, edit |-> docs[i].edit]]

\* every listener of the collection has a snapshot to deliver
Notified(ls) == [i \in DOMAIN ls |-> [ls[i] EXCEPT !.fresh = TRUE]]

RECURSIVE Without(_, _)
\* ls without its first listener of uid u
Without(ls, u) ==
  IF ls = <<>> THEN <<>>
  ELSE IF Head(ls).uid = u THEN Tail(ls) ELSE <<Head(ls)>> \o Without(Tail(ls), u)

RemoveAt(seq, k) == SubSeq(seq, 1, k - 1) \o SubSeq(seq, k + 1, Len(seq))

\* --------------------------------------------- the subscription effect
\* the effect body for user u: onSnapshot(...) when u is a user
Subscribe(ls, u) ==
  IF u # NoUser THEN Append(ls, [uid |-> u, fresh |-> TRUE]) ELSE ls

\* what the effect returns for user u: () => unsubscribe(), or undefined
CleanupOf(u) == IF u # NoUser THEN u ELSE "none"

\* a cleanup that leaves the listener subscribed
RunCleanupKeeps(ls, c) == ls

\* React runs the cleanup c the last effect run returned
RunCleanup(ls, c) == IF c = "none" THEN ls ELSE Without(ls, c)

TypeOK ==
  /\ nav \in Views
  /\ isOpen \in BOOLEAN
  /\ user \in {NoUser, Uid}
  /\ isModalOpen \in BOOLEAN /\ isAnimating \in BOOLEAN /\ loading \in BOOLEAN
  /\ editIndex \in {Null, NotFound} \cup Nat
  /\ now \in Times
  /\ nextId \in 1..(MaxIds + 1)
  /\ Len(timers) <= MaxTimers
  /\ Len(inflight) <= MaxInflight

Init ==
  /\ nav = 1
  /\ isOpen = FALSE
  /\ user \in {NoUser, Uid}
  /\ notes = <<>>
  /\ newNote = <<>>
  /\ newTitle = <<>>
  /\ lastEdited = 0
  /\ tag = ""
  /\ searchQuery = <<>>
  /\ filteredNotes = <<>>
  /\ isModalOpen = FALSE
  /\ isAnimating = FALSE
  /\ editIndex = Null
  /\ loading = TRUE
  /\ errorModal = ErrorModalClosed
  /\ sourceId = 0
  /\ cleanup = "none"
  /\ listeners = <<>>
  /\ store = {}
  /\ nextId = 1
  /\ now = 1
  /\ timers = <<>>
  /\ inflight = <<>>

\* ------------------------------------------------- MobileContainer actions
\* the state a freshly mounted <Note /> starts from (its useState initial values)
FreshNote ==
  /\ notes' = <<>>
  /\ newNote' = <<>>
  /\ newTitle' = <<>>
  /\ lastEdited' = 0
  /\ tag' = ""
  /\ searchQuery' = <<>>
  /\ filteredNotes' = <<>>
  /\ isModalOpen' = FALSE
  /\ isAnimating' = FALSE
  /\ editIndex' = Null
  /\ loading' = TRUE
  /\ errorModal' = ErrorModalClosed
  /\ sourceId' = 0

NoteState == <<notes, newNote, newTitle, lastEdited, tag, searchQuery, filteredNotes,
               isModalOpen, isAnimating, editIndex, loading, errorModal, sourceId>>

\* a write the previous instance awaits settles without touching the new instance
Orphaned(reqs) == [i \in DOMAIN reqs |-> [reqs[i] EXCEPT !.orphan = TRUE]]

\* {nav === 3 && <Note />} going from absent to present: a new instance, its effect runs
MountNote ==
  /\ FreshNote
  /\ listeners' = Subscribe(listeners, user)
  /\ cleanup' = CleanupOf(user)
  /\ timers' = <<>>
  /\ inflight' = Orphaned(inflight)

\* {nav === 3 && <Note />} going from present to absent: the effect's cleanup runs
UnmountNote ==
  /\ listeners' = RunCleanup(listeners, cleanup)
  /\ cleanup' = "none"
  /\ UNCHANGED <<NoteState, timers, inflight>>

\* handleNav(navNumber), and the render it causes
HandleNav(navNumber) ==
  /\ nav' = navNumber
  /\ isOpen' = FALSE
  /\ IF nav # NotesView /\ navNumber = NotesView THEN MountNote
     ELSE IF nav = NotesView /\ navNumber # NotesView THEN UnmountNote
     ELSE UNCHANGED <<NoteState, listeners, cleanup, timers, inflight>>
  /\ UNCHANGED <<user, store, nextId, now>>

\* the header button: setIsOpen(!isOpen)
ToggleMenu ==
  /\ isOpen' = ~isOpen
  /\ UNCHANGED <<nav, user, NoteState, cleanup, listeners, store, nextId, now, timers, inflight>>

\* useAuthState delivers another user: the effect's dependency [user] changed,
\* so a mounted Note runs the old cleanup and then the effect again
AuthChange(u) ==
  /\ u # user
  /\ user' = u
  /\ IF Mounted
     THEN /\ listeners' = Subscribe(RunCleanup(listeners, cleanup), u)
          /\ cleanup' = CleanupOf(u)
     ELSE UNCHANGED <<listeners, cleanup>>
  /\ UNCHANGED <<dash, NoteState, store, nextId, now, timers, inflight>>

\* ------------------------------------------------------ snapshot callbacks
\* the listener l delivers a snapshot: (snapshot) => { setNotes(...); setLoading(false) }
OnSnapshot(l) ==
  /\ l \in DOMAIN listeners
  /\ listeners[l].fresh
  /\ notes' = UpdatedNotes(SnapshotDocs)
  /\ loading' = FALSE
  /\ listeners' = [listeners EXCEPT ![l].fresh = FALSE]
  /\ UNCHANGED <<dash, user, draft, search, modal, errorModal, cleanup, remote, now,
                 timers, inflight>>

\* the listener l fails: (error) => { console.error(...); setLoading(false) };
\* Firestore delivers nothing more to a listener that failed
OnSnapshotError(l) ==
  /\ l \in DOMAIN listeners
  /\ loading' = FALSE
  /\ listeners' = RemoveAt(listeners, l)
  /\ UNCHANGED <<dash, user, notes, draft, search, modal, errorModal, cleanup, remote,
                 now, timers, inflight>>

\* ------------------------------------------------------------ Note actions
\* the page is rendered (not the loading spinner), so its controls can be used
UiReady == Mounted /\ ~loading
\* the controls of NotesCreateEditModal exist while isOpen={isModalOpen}
ModalReady == UiReady /\ isModalOpen

\* openModal(index)
OpenModal(index) ==
  /\ IF index # Null
     THEN IF InRange(notes, index)
          THEN LET note == At(notes, index)
               IN /\ newTitle' = note.title
                  /\ newNote' = note.text
                  /\ lastEdited' = (IF note.edit # 0 THEN note.edit ELSE now)
                  /\ tag' = note.tag
                  /\ editIndex' = index
                  /\ sourceId' = note.id
                  /\ isModalOpen' = TRUE
                  /\ timers' = Append(Superseded(timers), AnimTimer)
          \* notes[index] is undefined: note.title throws before any setter ran
          ELSE UNCHANGED <<draft, isModalOpen, timers>>
     ELSE /\ newTitle' = <<>>
          /\ newNote' = <<>>
          /\ lastEdited' = now
          /\ tag' = ""
          /\ editIndex' = Null
          /\ sourceId' = 0
          /\ isModalOpen' = TRUE
          /\ timers' = Append(Superseded(timers), AnimTimer)
  /\ UNCHANGED <<dash, user, notes, search, isAnimating, loading, errorModal, cleanup,
                 listeners, remote, now, inflight>>

\* a click on the item at index of the list of notes: onClick={() => openModal(index)}
ClickNote(index) ==
  /\ UiReady /\ ~isModalOpen /\ Len(timers) < MaxTimers
  /\ InRange(notes, index)
  /\ OpenModal(index)

\* the Create button: onClick={() => openModal()}
ClickCreate ==
  /\ UiReady /\ ~isModalOpen /\ Len(timers) < MaxTimers
  /\ OpenModal(Null)

\* a click on the k-th item of the filtered list:
\* originalIndex = notes.findIndex((n) => n.id === note.id); openModal(originalIndex)
ClickFiltered(k) ==
  /\ UiReady /\ ~isModalOpen /\ Len(timers) < MaxTimers
  /\ k \in DOMAIN filteredNotes
  /\ OpenModal(FindIndex(notes, filteredNotes[k].id))

\* closeModal(): what it does to the state
CloseModalBody ==
  /\ isAnimating' = FALSE
  /\ timers' = Append(timers, CloseTimer)

\* the modal's close control
CloseModal ==
  /\ ModalReady /\ Len(timers) < MaxTimers
  /\ CloseModalBody
  /\ UNCHANGED <<dash, user, notes, draft, search, isModalOpen, loading, errorModal,
                 cleanup, listeners, remote, now, inflight>>

\* closeErrorModal()
CloseErrorModal ==
  /\ UiReady /\ errorModal.isOpen
  /\ errorModal' = ErrorModalFalse
  /\ UNCHANGED <<dash, user, notes, draft, search, modal, loading, cleanup, listeners,
                 remote, now, timers, inflight>>

\* the modal's inputs
SetNewTitle(t) ==
  /\ ModalReady
  /\ newTitle' = t
  /\ UNCHANGED <<dash, user, notes, newNote, lastEdited, tag, editIndex, sourceId,
                 search, modal, loading, errorModal, cleanup, listeners, remote, now,
                 timers, inflight>>

SetNewNote(b) ==
  /\ ModalReady
  /\ newNote' = b
  /\ UNCHANGED <<dash, user, notes, newTitle, lastEdited, tag, editIndex, sourceId,
                 search, modal, loading, errorModal, cleanup, listeners, remote, now,
                 timers, inflight>>

SetTag(g) ==
  /\ ModalReady
  /\ tag' = g
  /\ UNCHANGED <<dash, user, notes, newTitle, newNote, lastEdited, editIndex, sourceId,
                 search, modal, loading, errorModal, cleanup, listeners, remote, now,
                 timers, inflight>>

\* the search box: onChange={(e) => setSearchQuery(e.target.value)}
SetSearchQuery(q) ==
  /\ UiReady
  /\ searchQuery' = q
  /\ UNCHANGED <<dash, user, notes, draft, filteredNotes, modal, loading, errorModal,
                 cleanup, listeners, remote, now, timers, inflight>>

\* handleSearch()
HandleSearch ==
  /\ UiReady
  /\ filteredNotes' = (IF searchQuery = <<>> THEN notes ELSE Filter(notes, searchQuery))
  /\ UNCHANGED <<dash, user, notes, draft, searchQuery, modal, loading, errorModal,
                 cleanup, listeners, remote, now, timers, inflight>>

\* the condition without trim()
FieldsFilledUntrimmed ==
  /\ Truthy(newTitle)
  /\ Truthy(newNote)
  /\ lastEdited # 0
  /\ user # NoUser

\* the condition addOrEditNote tests before it writes
FieldsFilled ==
  /\ Truthy(Trim(newTitle))
  /\ Truthy(Trim(newNote))
  /\ lastEdited # 0
  /\ user # NoUser

\* noteData stamped with the draft's lastEdited instead of Date.now()
NoteDataDraftStamp(op, id) ==
  [op |-> op, id |-> id, title |-> newTitle, text |-> newNote, edit |-> lastEdited,
   tag |-> tag, orphan |-> FALSE]

\* noteData, with currentStamp = Date.now()
NoteData(op, id) ==
  [op |-> op, id |-> id, title |-> newTitle, text |-> newNote, edit |-> now,
   tag |-> tag, orphan |-> FALSE]

DeleteRequest(id) ==
  [op |-> "deleteDoc", id |-> id, title |-> <<>>, text |-> <<>>, edit |-> 0,
   tag |-> "", orphan |-> FALSE]

\* the request addOrEditNote awaits, up to its await
SubmitRequest ==
  IF editIndex # Null
  THEN NoteData("updateDoc", At(notes, editIndex).id)
  ELSE NoteData("addDoc", 0)

\* addOrEditNote(), up to its await
AddOrEditNote ==
  /\ ModalReady
  /\ IF FieldsFilled
     THEN IF editIndex # Null /\ ~InRange(notes, editIndex)
          \* notes[editIndex] is undefined: reading its id throws, the promise rejects
          THEN UNCHANGED <<inflight, errorModal>>
          ELSE /\ Len(inflight) < MaxInflight
               /\ inflight' = Append(inflight, SubmitRequest)
               /\ UNCHANGED errorModal
     ELSE /\ errorModal' = ErrorModalOpened
          /\ UNCHANGED inflight
  /\ UNCHANGED <<dash, user, notes, draft, search, modal, loading, cleanup, listeners,
                 remote, now, timers>>

\* deleteNote() that also removes the note from the mirrored list itself
DeleteNoteOptimistic ==
  /\ ModalReady
  /\ editIndex # Null /\ user # NoUser /\ InRange(notes, editIndex)
  /\ Len(inflight) < MaxInflight
  /\ inflight' = Append(inflight, DeleteRequest(At(notes, editIndex).id))
  /\ notes' = RemoveAt(notes, editIndex + 1)
  /\ UNCHANGED <<dash, user, draft, search, modal, loading, errorModal, cleanup,
                 listeners, remote, now, timers>>

\* deleteNote(), up to its await
DeleteNote ==
  /\ ModalReady
  /\ IF editIndex # Null /\ user # NoUser
     THEN IF InRange(notes, editIndex)
          THEN /\ Len(inflight) < MaxInflight
               /\ inflight' = Append(inflight, DeleteRequest(At(notes, editIndex).id))
          ELSE UNCHANGED inflight
     ELSE UNCHANGED inflight
  /\ UNCHANGED <<dash, user, notes, draft, search, modal, loading, errorModal, cleanup,
                 listeners, remote, now, timers>>

\* addOrEditNote() called while no earlier write is awaited, or rejecting
AddOrEditNoteAlone ==
  /\ inflight = <<>> \/ ~FieldsFilled
  /\ AddOrEditNote

\* deleteNote() called while no earlier write is awaited
DeleteNoteAlone ==
  /\ inflight = <<>>
  /\ DeleteNote

\* ------------------------------------------------------------------ timers
\* the browser runs a callback once every callback set before it with a delay
\* no longer than its own has run
Due(k) ==
  /\ k \in DOMAIN timers
  /\ \A j \in 1..(k - 1) : timers[j].delay > timers[k].delay

\* () => setIsAnimating(true) and () => setIsModalOpen(false)
FireTimer(k) ==
  /\ Due(k)
  /\ IF timers[k].fn = "setIsAnimating(true)"
     THEN isAnimating' = TRUE /\ UNCHANGED isModalOpen
     ELSE isModalOpen' = FALSE /\ UNCHANGED isAnimating
  /\ timers' = RemoveAt(timers, k)
  /\ UNCHANGED <<dash, user, notes, draft, search, loading, errorModal, cleanup,
                 listeners, remote, now, inflight>>

\* ------------------------------------------------------- awaited writes
StoredDoc(id, r) ==
  [id |-> id, title |-> r.title, text |-> r.text, tag |-> r.tag, edit |-> r.edit]

Exists(id) == \E d \in store : d.id = id

\* the collection once the backend has applied request r
Applied(r) ==
  CASE r.op = "addDoc" -> store \cup {StoredDoc(nextId, r)}
    [] r.op = "updateDoc" -> {d \in store : d.id # r.id} \cup {StoredDoc(r.id, r)}
    [] OTHER -> {d \in store : d.id # r.id}

\* what runs after the await of a request that resolved: closeModal()
AfterAwait(r) ==
  IF r.orphan
  THEN UNCHANGED <<isAnimating, timers>>
  ELSE Len(timers) < MaxTimers /\ CloseModalBody

\* the backend applies the k-th awaited write and its promise resolves
ResolveWrite(k) ==
  /\ k \in DOMAIN inflight
  /\ LET r == inflight[k]
     IN /\ r.op = "addDoc" => nextId <= MaxIds
        \* updateDoc of a document that is gone rejects: see RejectWrite
        /\ r.op = "updateDoc" => Exists(r.id)
        /\ store' = Applied(r)
        /\ nextId' = (IF r.op = "addDoc" THEN nextId + 1 ELSE nextId)
        /\ listeners' = Notified(listeners)
        /\ AfterAwait(r)
  /\ inflight' = RemoveAt(inflight, k)
  /\ UNCHANGED <<dash, user, notes, draft, search, isModalOpen, loading, errorModal,
                 cleanup, now>>

\* the k-th awaited write rejects (document gone, permission, network): the
\* async function stops at its await, nothing after it runs
RejectWrite(k) ==
  /\ k \in DOMAIN inflight
  /\ inflight' = RemoveAt(inflight, k)
  /\ UNCHANGED <<dash, user, NoteState, cleanup, listeners, remote, now, timers>>

\* ------------------------------------------------------- the environment
\* another session of the app writes a note with its own clock's stamp
RemoteWrite(id, title, g, stamp) ==
  /\ id <= MaxIds
  /\ Exists(id) \/ id = nextId
  /\ LET d == [id |-> id, title |-> title, text |-> Body, tag |-> g, edit |-> stamp]
     IN store' = {e \in store : e.id # id} \cup {d}
  /\ nextId' = (IF id = nextId THEN nextId + 1 ELSE nextId)
  /\ listeners' = Notified(listeners)
  /\ UNCHANGED <<dash, user, NoteState, cleanup, now, timers, inflight>>

\* another session of the app deletes a note
RemoteDelete(id) ==
  /\ Exists(id)
  /\ store' = {e \in store : e.id # id}
  /\ listeners' = Notified(listeners)
  /\ UNCHANGED <<dash, user, NoteState, cleanup, nextId, now, timers, inflight>>

\* the clock advances; two readings of Date.now() can be equal
Tick ==
  /\ now < MaxTime
  /\ now' = now + 1
  /\ UNCHANGED <<dash, user, NoteState, cleanup, listeners, remote, timers, inflight>>

\* ------------------------------------------------------- specifications
\* The state after <Note /> is constructed for a resolved user: its useState
\* initial values, and the effect has subscribed.
InitNote ==
  /\ nav = NotesView
  /\ isOpen = FALSE
  /\ user = Uid
  /\ notes = <<>>
  /\ newNote = <<>>
  /\ newTitle = <<>>
  /\ lastEdited = 0
  /\ tag = ""
  /\ searchQuery = <<>>
  /\ filteredNotes = <<>>
  /\ isModalOpen = FALSE
  /\ isAnimating = FALSE
  /\ editIndex = Null
  /\ loading = TRUE
  /\ errorModal = ErrorModalClosed
  /\ sourceId = 0
  /\ cleanup = Uid
  /\ listeners = <<[uid |-> Uid, fresh |-> TRUE]>>
  /\ store = {}
  /\ nextId = 1
  /\ now = 1
  /\ timers = <<>>
  /\ inflight = <<>>

\* The dashboard: view switches, sign-in and sign-out, the subscription they
\* mount and tear down, and the modal with its timers across them.
NextDash ==
  \/ \E n \in Views : HandleNav(n)
  \/ ToggleMenu
  \/ \E u \in {NoUser, Uid} : AuthChange(u)
  \/ \E l \in 1..2 : OnSnapshot(l)
  \/ \E l \in 1..2 : OnSnapshotError(l)
  \/ \E id \in 1..MaxIds : RemoteWrite(id, Trip, "", 1)
  \/ \E id \in 1..MaxIds : RemoteDelete(id)
  \/ ClickCreate
  \/ SetTag("Work")
  \/ CloseModal
  \/ \E k \in 1..MaxTimers : FireTimer(k)

SpecDash == Init /\ [][NextDash]_vars

\* what another session stores in the search scenarios: a title and the stamp
\* of the clock that wrote it
RemoteNotes == {<<Trip, MaxTime>>, <<<<"b">>, 1>>}

\* The search box over a list that other sessions keep changing.
NextSearch ==
  \/ OnSnapshot(1)
  \/ \E id \in 1..MaxIds, w \in RemoteNotes : RemoteWrite(id, w[1], "Work", w[2])
  \/ \E id \in 1..MaxIds : RemoteDelete(id)
  \/ \E q \in QueryInputs : SetSearchQuery(q)
  \/ HandleSearch
  \/ \E k \in 1..MaxIds : ClickFiltered(k)

SpecSearch == InitNote /\ [][NextSearch]_vars

\* The modal's form: create and edit with every kind of draft, one awaited
\* write at a time.
NextForm ==
  \/ OnSnapshot(1)
  \/ \E i \in 0..(MaxIds - 1) : ClickNote(i)
  \/ ClickCreate
  \/ \E t \in TitleInputs : SetNewTitle(t)
  \/ \E b \in BodyInputs : SetNewNote(b)
  \/ CloseModal
  \/ HandleSearch
  \/ AddOrEditNoteAlone
  \/ CloseErrorModal
  \/ ResolveWrite(1)
  \/ \E k \in 1..MaxTimers : FireTimer(k)

SpecForm == InitNote /\ [][NextForm]_vars

\* Every handler of the page, with valid drafts and one awaited write at a time.
NextPage ==
  \/ OnSnapshot(1)
  \/ \E i \in 0..(MaxIds - 1) : ClickNote(i)
  \/ ClickCreate
  \/ SetNewTitle(Trip)
  \/ SetNewNote(Body)
  \/ CloseModal
  \/ HandleSearch
  \/ AddOrEditNoteAlone
  \/ DeleteNoteAlone
  \/ ResolveWrite(1)
  \/ \E k \in 1..MaxTimers : FireTimer(k)

SpecPage == InitNote /\ [][NextPage]_vars

\* Editing a note while another session adds notes and the clock advances, one
\* awaited write at a time.
NextEdit ==
  \/ OnSnapshot(1)
  \/ \E id \in 1..MaxIds : RemoteWrite(id, Trip, "Work", 1)
  \/ \E i \in 0..(MaxIds - 1) : ClickNote(i)
  \/ AddOrEditNoteAlone
  \/ ResolveWrite(1)
  \/ \E k \in 1..MaxTimers : FireTimer(k)
  \/ Tick

SpecEdit == InitNote /\ [][NextEdit]_vars

\* Writes awaited at the same time.
NextWrites ==
  \/ OnSnapshot(1)
  \/ \E i \in 0..(MaxIds - 1) : ClickNote(i)
  \/ ClickCreate
  \/ SetNewTitle(Trip)
  \/ SetNewNote(Body)
  \/ AddOrEditNote
  \/ DeleteNote
  \/ \E k \in 1..MaxInflight : ResolveWrite(k)
  \/ \E k \in 1..MaxInflight : RejectWrite(k)
  \/ \E k \in 1..MaxTimers : FireTimer(k)

SpecWrites == InitNote /\ [][NextWrites]_vars

\* the whole program
Next == NextDash \/ NextSearch \/ NextForm \/ NextPage \/ NextEdit \/ NextWrites

Spec == Init /\ [][Next]_vars

\* ------------------------------------------------------------------ claims
\* the request the step has just issued
Issued == Len(inflight') = Len(inflight) + 1
LastIssued == inflight'[Len(inflight')]

\* C1: a draft whose title or body is empty or whitespace-only is rejected by
\* addOrEditNote in create mode and in edit mode: the error modal is opened with
\* its message, no request is issued, and the mirrored list and the collection
\* are unchanged.
C1_BlankDraftRejected ==
  [][(/\ ModalReady
      /\ \/ \A i \in DOMAIN newTitle : newTitle[i] = " "
         \/ \A i \in DOMAIN newNote : newNote[i] = " "
      /\ AddOrEditNote)
     => (/\ errorModal'.isOpen
         /\ errorModal'.message = "Please fill in all fields."
         /\ inflight' = inflight
         /\ notes' = notes
         /\ store' = store)]_vars

\* C1 happens: an edit of a stored note was rejected for its whitespace-only
\* title, and a create for its empty body.
C1_Witness ==
  /\ errorModal.isOpen
  /\ isModalOpen
  /\ inflight = <<>>
  /\ \/ editIndex # Null /\ newTitle = Blank /\ newNote = Body
     \/ editIndex = Null /\ newTitle = Trip /\ newNote = Empty

\* the letters a and b in either case
SameLetter(c, d) ==
  c = d \/ {c, d} = {"a", "A"} \/ {c, d} = {"b", "B"}

\* title contains q as a substring, letter case ignored
ContainsIgnoringCase(title, q) ==
  \E k \in 0..(Len(title) - Len(q)) :
    \A j \in 1..Len(q) : SameLetter(title[k + j], q[j])

\* sub is arr with some elements left out, the others in arr's order
IsSubsequence(sub, arr) ==
  \E f \in [DOMAIN sub -> DOMAIN arr] :
    /\ \A i \in DOMAIN sub : sub[i] = arr[f[i]]
    /\ \A i, j \in DOMAIN sub : i < j => f[i] < f[j]

\* C2: handleSearch sets the filtered list to exactly the notes whose title
\* contains the query ignoring case, in the order of the mirrored list; for the
\* empty query the filtered list is the mirrored list.
C2_SearchFilters ==
  [][(UiReady /\ HandleSearch)
     => (/\ IsSubsequence(filteredNotes', notes)
         /\ \A i \in DOMAIN filteredNotes' :
              ContainsIgnoringCase(filteredNotes'[i].title, searchQuery)
         /\ Len(filteredNotes')
              = Cardinality({i \in DOMAIN notes :
                               ContainsIgnoringCase(notes[i].title, searchQuery)})
         /\ searchQuery = <<>> => filteredNotes' = notes)]_vars

\* C2 happens: a query in another letter case than the title kept one of two
\* notes.
C2_Witness ==
  /\ searchQuery = <<"A", "B">>
  /\ Len(notes) = 2
  /\ Len(filteredNotes) = 1
  /\ filteredNotes[1].title = Trip
  /\ \E i \in DOMAIN notes : notes[i] = filteredNotes[1]

\* C3: every update or delete request issued from the modal opened for Edit on
\* the item with id X targets id X, whatever snapshots arrived since; one
\* deleteNote call issues one delete request.
C3_RequestTargetsOpenedItem ==
  [][(/\ Issued
      /\ editIndex # Null)
     => (/\ LastIssued.id = sourceId
         /\ LastIssued.op \in {"updateDoc", "deleteDoc"})]_vars

\* the draft is what openModal copied from the item at editIndex, which is
\* still the item it was opened on
Untouched ==
  /\ editIndex # Null
  /\ InRange(notes, editIndex)
  /\ At(notes, editIndex).id = sourceId
  /\ newTitle = At(notes, editIndex).title
  /\ newNote = At(notes, editIndex).text
  /\ tag = At(notes, editIndex).tag
  /\ lastEdited = At(notes, editIndex).edit

\* the step issues an update of the item at editIndex with the item's fields
UpdatesWithItemFields ==
  /\ Issued
  /\ LastIssued.op = "updateDoc"
  /\ LastIssued.id = At(notes, editIndex).id
  /\ LastIssued.title = At(notes, editIndex).title
  /\ LastIssued.text = At(notes, editIndex).text
  /\ LastIssued.tag = At(notes, editIndex).tag

\* C4 as claimed: openModal(i) followed by addOrEditNote with the draft untouched
\* issues an update of item i with the item's title, body and tag and with a
\* stamp strictly greater than the item's.
C4_RoundTripStrictlyLater ==
  [][(ModalReady /\ Untouched /\ AddOrEditNote)
     => (/\ UpdatesWithItemFields
         /\ LastIssued.edit > At(notes, editIndex).edit)]_vars

\* C4 as amended: while a user is resolved, openModal(i) followed by
\* addOrEditNote with the draft untouched issues an update of item i with the
\* item's title, body and tag, stamped with the reading of Date.now() at the
\* submission, whatever the item's stamp is.
C4_RoundTripStampedNow ==
  [][(ModalReady /\ Untouched /\ user # NoUser /\ AddOrEditNote)
     => (/\ UpdatesWithItemFields
         /\ LastIssued.edit = now)]_vars

\* C4 happens: an awaited update carries the fields of the stored note and a
\* stamp that is not later than the stored one.
C4_Witness ==
  /\ inflight # <<>>
  /\ inflight[1].op = "updateDoc"
  /\ \E d \in store :
       /\ d.id = inflight[1].id
       /\ d.title = inflight[1].title /\ d.text = inflight[1].text
       /\ d.tag = inflight[1].tag
       /\ d.edit >= inflight[1].edit

C6_OneSubscription ==
  /\ Len(listeners) <= 1
  /\ (nav # NotesView \/ user = NoUser) => listeners = <<>>

\* C6 happens: a Note that had subscribed and mirrored a document is torn down.
C6_Witness ==
  /\ nav # NotesView
  /\ user # NoUser
  /\ notes # <<>>
  /\ listeners = <<>>

\* C7: while a write is awaited, a submit or delete issues no further request.
C7_NoSecondWrite ==
  [][inflight # <<>> => Len(inflight') <= Len(inflight)]_vars

\* C8: the mirrored list changes only in the snapshot callback, which replaces
\* it by the collection's documents in the query's order, each with its id;
\* every handler of the page leaves it as it is.
C8_OnlySnapshotsChangeNotes ==
  [][(Mounted /\ notes' # notes)
     => (/\ \E l \in DOMAIN listeners : OnSnapshot(l)
         /\ Len(notes') = Cardinality(store)
         /\ \A i \in DOMAIN notes' : notes'[i] \in store
         /\ \A i, j \in DOMAIN notes' : i < j => Before(notes'[i], notes'[j]))]_vars

\* C8 happens: a delete issued from the modal has been applied to the
\* collection and the mirrored list still holds both notes.
C8_Witness ==
  /\ Len(notes) = 2
  /\ Cardinality(store) = 1
  /\ editIndex # Null
  /\ listeners # <<>> /\ listeners[1].fresh

\* C9: a closed modal is not animating, and a timer that closeModal set before
\* openModal ran does not close the modal that openModal opened.
C9_ModalStaysOpen ==
  /\ [](isAnimating => isModalOpen)
  /\ [][\A k \in DOMAIN timers :
          (FireTimer(k) /\ isModalOpen /\ ~isModalOpen') => ~timers[k].superseded]_vars

\* C10: every note of the filtered list has the id of a note of the mirrored
\* list, so findIndex finds the clicked note.
C10_FilteredNotesAreMirrored ==
  \A k \in DOMAIN filteredNotes :
    FindIndex(notes, filteredNotes[k].id) # NotFound

====
